---- MODULE Spec2Model ----
(***************************************************************************)
(* Model of the AnimalClassifying training pipeline:                       *)
(*   src/classification_train.py  : train(), the epoch loop, checkpoints,  *)
(*                                  the MultiStepLR schedule, resume       *)
(*   src/classification_models.py : CNN, the shapes of forward()           *)
(*                                                                         *)
(* Four specifications share the module:                                   *)
(*   Spec      - invocations of train(): load/resume, the epoch loop with  *)
(*               its six steps, the two checkpoint files, external kills   *)
(*   LongSpec  - the same with epoch counts that reach the first milestone *)
(*               of the learning-rate schedule                             *)
(*   ValSpec   - the validation loop's label accumulation and the metrics  *)
(*               computed from it (accuracy_score, confusion_matrix)       *)
(*   ShapeSpec - the tensor shape flowing through CNN.forward()            *)
(***************************************************************************)
EXTENDS Integers, Sequences, FiniteSets, TLC

VARIABLES
    \* ---- train(): the process and the two checkpoint files ----
    pc,               \* position of the process in train()
    runs,             \* number of invocations of train() so far
    epochs,           \* args.epochs
    checkpoint_path,  \* args.checkpoint_path (a kind of path, see PathKinds)
    fs_last,          \* contents of <trained_path>/last.pt, or NoFile
    fs_best,          \* contents of <trained_path>/best.pt, or NoFile
    start_epoch,      \* line 102 / 105
    best_acc,         \* line 103 / 106 / 174 (correct validation samples)
    range_it,         \* next value the iterator of range(start_epoch, epochs) yields
    epoch,            \* loop variable of line 116
    acc,              \* line 158 (correct validation samples out of NumVal)
    checkpoint,       \* the dict of line 99 / 163
    lr_exp,           \* optimizer lr = args.lr * gamma^lr_exp
    sched_last_epoch, \* scheduler.last_epoch
    loaded,           \* load_state_dict ran (lines 100-101)
    \* ---- history of the current run (observation only) ----
    init_best,        \* best_acc as set by lines 98-106
    seen,             \* validation accuracies of the earlier epochs of this run
    executed,         \* epochs whose body was entered in this run, in order
    steps,            \* steps taken in the current epoch, in order
    files_changed,    \* a checkpoint file was written in this run
    \* ---- validation loop and metrics ----
    vpc, num_classes, batch_size, valid_labels, all_gts, all_predictions,
    v_acc, conf_matrix,
    \* ---- CNN.forward ----
    fpc, image_size, n_out, shape

trainVars == <<pc, runs, epochs, checkpoint_path, fs_last, fs_best, start_epoch,
               best_acc, range_it, epoch, acc, checkpoint, lr_exp,
               sched_last_epoch, loaded, init_best, seen, executed, steps,
               files_changed>>
valVars == <<vpc, num_classes, batch_size, valid_labels, all_gts,
             all_predictions, v_acc, conf_matrix>>
fwdVars == <<fpc, image_size, n_out, shape>>
vars == <<trainVars, valVars, fwdVars>>

----------------------------------------------------------------------------
(* Bounds *)
MaxEpochs == 4       \* largest args.epochs explored by Spec
LongEpochs == 31     \* largest args.epochs explored by LongSpec: past a milestone
MaxRuns == 2         \* invocations of train() explored
NumVal == 2          \* size of the validation set in Spec

(* Program constants *)
Milestones == {30, 60, 90}

NoFile == [absent |-> TRUE]
None == 0 - 1        \* "no value" for the integer-valued locals

Max(a, b) == IF a >= b THEN a ELSE b

RECURSIVE MaxOf(_)
MaxOf(S) == IF S = {} THEN None
            ELSE LET x == CHOOSE y \in S : TRUE
                 IN Max(x, MaxOf(S \ {x}))

----------------------------------------------------------------------------
(* Idle values of the other specifications' variables *)
ValIdle ==
    /\ vpc = "off" /\ num_classes = 0 /\ batch_size = 0 /\ valid_labels = <<>>
    /\ all_gts = <<>> /\ all_predictions = <<>> /\ v_acc = <<0, 1>>
    /\ conf_matrix = <<>>
FwdIdle ==
    /\ fpc = "off" /\ image_size = 0 /\ n_out = 0 /\ shape = <<>>

----------------------------------------------------------------------------
(* train(): checkpoint files and resume, lines 98-106 *)

\* A file cut short by a kill during torch.save (the write is not atomic)
Corrupt == [corrupt |-> TRUE]

\* what -c can be given as: not given, the empty string, a path to nothing,
\* a directory, or the path of one of the two files train() writes
PathKinds == {"none", "empty", "missing", "dir", "last", "best"}

\* Python truthiness of args.checkpoint_path
Truthy(p) == p \notin {"none", "empty"}

\* os.path.isfile(args.checkpoint_path)
isfile(p, fl, fb) ==
    CASE p = "last" -> fl # NoFile
      [] p = "best" -> fb # NoFile
      [] OTHER -> FALSE

\* the condition of line 98 (first without its isfile test, for comparison)
ShouldResumeNoIsfile(p, fl, fb) == Truthy(p)
ShouldResume(p, fl, fb) == Truthy(p) /\ isfile(p, fl, fb)

\* torch.load(args.checkpoint_path)
TorchLoad(p, fl, fb) ==
    CASE p = "last" -> fl
      [] p = "best" -> fb
      [] OTHER -> NoFile

\* line 102 (first without its + 1, for comparison)
ResumeStartEpochSame(ck) == ck.epoch
ResumeStartEpoch(ck) == ck.epoch + 1

\* line 103
ResumeBestAcc(ck) == ck.best_acc

\* the dict of lines 163-169; "optimizer" holds the optimizer's param-group lr
\* (the model and batch size fields play no part in what is checked)
MakeCheckpoint(e, b, lr) ==
    [epoch |-> e, best_acc |-> b, optimizer |-> lr]

\* the condition of line 172 (first with >= for >, for comparison)
ShouldWriteBestGeq(a, b) == a >= b
ShouldWriteBest(a, b) == a > b

\* MultiStepLR.step(): last_epoch += 1, then the lr is multiplied by gamma
\* when last_epoch is a milestone (line 175)
SchedulerLr(lr, last) == IF last \in Milestones THEN lr + 1 ELSE lr

Running == {"load", "loop", "train", "validate", "log", "save_last",
            "save_best", "sched"}
Stopped == {"start", "done", "killed", "error"}

\* args.epochs of an invocation: any count up to MaxEpochs in Spec; in LongSpec
\* the counts that end a run just before and just after the first milestone
EpochChoices == 0..MaxEpochs
LongEpochChoices == {LongEpochs - 1, LongEpochs}

\* range(start_epoch, args.epochs) has a next value (first with the end
\* included, for comparison)
RangeHasNextInclusive(it, n) == it <= n
RangeHasNext(it, n) == it < n

TrainInit ==
    /\ pc = "start" /\ runs = 0 /\ epochs = 0 /\ checkpoint_path = "none"
    /\ fs_last = NoFile /\ fs_best = NoFile
    /\ start_epoch = 0 /\ best_acc = 0 /\ range_it = 0 /\ epoch = None
    /\ acc = None /\ checkpoint = NoFile /\ lr_exp = 0
    /\ sched_last_epoch = 0 /\ loaded = FALSE
    /\ init_best = 0 /\ seen = {} /\ executed = <<>> /\ steps = <<>>
    /\ files_changed = FALSE

\* the locals of a process that has not run a statement of train() yet
FreshLocals ==
    /\ start_epoch' = 0 /\ best_acc' = 0 /\ range_it' = 0 /\ epoch' = None
    /\ acc' = None /\ checkpoint' = NoFile /\ lr_exp' = 0
    /\ sched_last_epoch' = 0 /\ loaded' = FALSE
    /\ init_best' = 0 /\ seen' = {} /\ executed' = <<>> /\ steps' = <<>>
    /\ files_changed' = FALSE

\* python classification_train.py -e n -c p : get_args and lines 69-96, which
\* build the optimizer with lr = args.lr and the scheduler (last_epoch = 0)
Invoke(choices) ==
    /\ pc \in Stopped /\ runs < MaxRuns
    /\ \E p \in PathKinds, n \in choices :
          /\ checkpoint_path' = p
          /\ epochs' = n
    /\ runs' = runs + 1
    /\ pc' = "load"
    /\ FreshLocals
    /\ UNCHANGED <<valVars, fwdVars, fs_last, fs_best>>

\* lines 98-106 (and the directory set-up of lines 108-114)
Load ==
    /\ pc = "load"
    /\ IF ShouldResume(checkpoint_path, fs_last, fs_best)
       THEN LET ck == TorchLoad(checkpoint_path, fs_last, fs_best) IN
            IF ck \in {NoFile, Corrupt}
            THEN \* torch.load raises; nothing catches it
                 /\ pc' = "error"
                 /\ UNCHANGED <<checkpoint, loaded, lr_exp, start_epoch,
                                best_acc, init_best, range_it>>
            ELSE /\ checkpoint' = ck
                 /\ loaded' = TRUE
                 /\ lr_exp' = ck.optimizer
                 /\ start_epoch' = ResumeStartEpoch(ck)
                 /\ best_acc' = ResumeBestAcc(ck)
                 /\ init_best' = best_acc'
                 /\ range_it' = start_epoch'
                 /\ pc' = "loop"
       ELSE /\ start_epoch' = 0
            /\ best_acc' = 0
            /\ init_best' = 0
            /\ range_it' = 0
            /\ pc' = "loop"
            /\ UNCHANGED <<checkpoint, loaded, lr_exp>>
    /\ UNCHANGED <<valVars, fwdVars, runs, epochs, checkpoint_path, fs_last, fs_best, epoch, acc,
                   sched_last_epoch, seen, executed, steps, files_changed>>

\* line 116: for epoch in range(start_epoch, args.epochs)
LoopHead ==
    /\ pc = "loop"
    /\ IF RangeHasNext(range_it, epochs)
       THEN /\ epoch' = range_it
            /\ range_it' = range_it + 1
            /\ executed' = Append(executed, range_it)
            /\ steps' = <<>>
            /\ pc' = "train"
       ELSE /\ pc' = "done"
            /\ UNCHANGED <<epoch, range_it, executed, steps>>
    /\ UNCHANGED <<valVars, fwdVars, runs, epochs, checkpoint_path, fs_last, fs_best, start_epoch,
                   best_acc, acc, checkpoint, lr_exp, sched_last_epoch, loaded,
                   init_best, seen, files_changed>>

\* lines 117-136: one pass over the training batches at the current lr
TrainPass ==
    /\ pc = "train"
    /\ pc' = "validate"
    /\ steps' = Append(steps, "train")
    /\ UNCHANGED <<valVars, fwdVars, runs, epochs, checkpoint_path, fs_last, fs_best, start_epoch,
                   best_acc, range_it, epoch, acc, checkpoint, lr_exp,
                   sched_last_epoch, loaded, init_best, seen, executed,
                   files_changed>>

\* lines 138-158: the validation pass; acc is the exact-match fraction k/NumVal
ValidatePass ==
    /\ pc = "validate"
    /\ \E k \in 0..NumVal : acc' = k
    /\ pc' = "log"
    /\ steps' = Append(steps, "validate")
    /\ UNCHANGED <<valVars, fwdVars, runs, epochs, checkpoint_path, fs_last, fs_best, start_epoch,
                   best_acc, range_it, epoch, checkpoint, lr_exp,
                   sched_last_epoch, loaded, init_best, seen, executed,
                   files_changed>>

\* lines 157-161: scalars and the confusion-matrix figure go to the writer
LogMetrics ==
    /\ pc = "log"
    /\ pc' = "save_last"
    /\ steps' = Append(steps, "log")
    /\ UNCHANGED <<valVars, fwdVars, runs, epochs, checkpoint_path, fs_last, fs_best, start_epoch,
                   best_acc, range_it, epoch, acc, checkpoint, lr_exp,
                   sched_last_epoch, loaded, init_best, seen, executed,
                   files_changed>>

\* lines 163-171
SaveLast ==
    /\ pc = "save_last"
    /\ checkpoint' = MakeCheckpoint(epoch, best_acc, lr_exp)
    /\ fs_last' = checkpoint'
    /\ files_changed' = TRUE
    /\ steps' = Append(steps, "last")
    /\ pc' = "save_best"
    /\ UNCHANGED <<valVars, fwdVars, runs, epochs, checkpoint_path, fs_best, start_epoch, best_acc,
                   range_it, epoch, acc, lr_exp, sched_last_epoch, loaded,
                   init_best, seen, executed>>

\* lines 172-174
SaveBest ==
    /\ pc = "save_best"
    /\ IF ShouldWriteBest(acc, best_acc)
       THEN /\ fs_best' = checkpoint
            /\ best_acc' = acc
            /\ steps' = Append(steps, "best")
       ELSE UNCHANGED <<fs_best, best_acc, steps>>
    /\ pc' = "sched"
    /\ UNCHANGED <<valVars, fwdVars, runs, epochs, checkpoint_path, fs_last, start_epoch, range_it,
                   epoch, acc, checkpoint, lr_exp, sched_last_epoch, loaded,
                   init_best, seen, executed, files_changed>>

\* line 175
SchedulerStep ==
    /\ pc = "sched"
    /\ sched_last_epoch' = sched_last_epoch + 1
    /\ lr_exp' = SchedulerLr(lr_exp, sched_last_epoch')
    /\ seen' = seen \cup {acc}
    /\ steps' = Append(steps, "sched")
    /\ pc' = "loop"
    /\ UNCHANGED <<valVars, fwdVars, runs, epochs, checkpoint_path, fs_last, fs_best, start_epoch,
                   best_acc, range_it, epoch, acc, checkpoint, loaded, init_best,
                   executed, files_changed>>

\* the process is killed from outside; a kill that lands inside torch.save
\* leaves the file being written cut short
Kill ==
    /\ pc \in Running
    /\ pc' = "killed"
    /\ \/ UNCHANGED <<fs_last, fs_best>>
       \/ /\ pc = "save_last"
          /\ fs_last' = Corrupt
          /\ UNCHANGED fs_best
       \/ /\ pc = "save_best" /\ ShouldWriteBest(acc, best_acc)
          /\ fs_best' = Corrupt
          /\ UNCHANGED fs_last
    /\ FreshLocals
    /\ UNCHANGED <<valVars, fwdVars, runs, epochs, checkpoint_path>>

\* a step of the running process
RunStep ==
    \/ Load \/ LoopHead \/ TrainPass \/ ValidatePass \/ LogMetrics
    \/ SaveLast \/ SaveBest \/ SchedulerStep

Init == TrainInit /\ ValIdle /\ FwdIdle
Next ==
    \/ Invoke(EpochChoices)
    \/ Load \/ LoopHead \/ TrainPass \/ ValidatePass \/ LogMetrics
    \/ SaveLast \/ SaveBest \/ SchedulerStep
    \/ Kill
Spec == Init /\ [][Next]_vars

\* the process is scheduled as long as it is alive: nothing in train() waits
FairSpec == Spec /\ WF_vars(RunStep)

LongNext ==
    \/ Invoke(LongEpochChoices)
    \/ Load \/ LoopHead \/ TrainPass \/ ValidatePass \/ LogMetrics
    \/ SaveLast \/ SaveBest \/ SchedulerStep
    \/ Kill
LongSpec == Init /\ [][LongNext]_vars

----------------------------------------------------------------------------
(* The validation loop of an epoch and its metrics, lines 138-161 *)

MaxClasses == 2      \* largest len(train_set.categories) explored
MaxVal == 4          \* largest validation set explored
MaxBatch == 2        \* largest args.batch_size explored

Min(a, b) == IF a <= b THEN a ELSE b

\* the sequences of length n over S
SeqsOfLen(S, n) == [1..n -> S]

\* number of positions at which two equal-length sequences agree, summed
\* position by position as sklearn's accuracy_score does over (y_true == y_pred)
RECURSIVE SumEqual(_, _, _)
SumEqual(y_true, y_pred, i) ==
    IF i = 0 THEN 0
    ELSE SumEqual(y_true, y_pred, i - 1)
         + (IF y_true[i] = y_pred[i] THEN 1 ELSE 0)

\* sklearn.metrics.accuracy_score(y_true, y_pred) as the fraction <<num, den>>
\* (first as with normalize=False, for comparison)
accuracy_score_unnormalized(y_true, y_pred) ==
    <<SumEqual(y_true, y_pred, Len(y_true)), 1>>
accuracy_score(y_true, y_pred) ==
    <<SumEqual(y_true, y_pred, Len(y_true)), Len(y_true)>>

\* the elements of a finite set of integers in ascending order
RECURSIVE SortedSeq(_)
SortedSeq(S) ==
    IF S = {} THEN <<>>
    ELSE LET m == CHOOSE x \in S : \A y \in S : x <= y
         IN <<m>> \o SortedSeq(S \ {m})

\* sklearn's unique_labels(y_true, y_pred): the labels that occur, sorted
unique_labels(y_true, y_pred) ==
    SortedSeq({y_true[i] : i \in 1..Len(y_true)}
              \cup {y_pred[i] : i \in 1..Len(y_pred)})

\* sklearn.metrics.confusion_matrix(y_true, y_pred) with no labels argument:
\* one row and one column per label that occurs, entry [i][j] counting the
\* samples with true label labels[i] and predicted label labels[j]
confusion_matrix(y_true, y_pred) ==
    LET labels == unique_labels(y_true, y_pred)
        n == Len(labels)
    IN [i \in 1..n |->
          [j \in 1..n |->
              Cardinality({k \in 1..Len(y_true) :
                              y_true[k] = labels[i] /\ y_pred[k] = labels[j]})]]

\* line 158
AccuracyCall(gts, preds) == accuracy_score(gts, preds)

\* line 160 (first with the arguments swapped, for comparison)
ConfusionCallSwapped(gts, preds) == confusion_matrix(preds, gts)
ConfusionCall(gts, preds) == confusion_matrix(gts, preds)

\* the state at line 143 of some epoch: a data set with num_classes categories
\* whose validation labels are class indices, and empty accumulators
ValInit ==
    /\ num_classes \in 1..MaxClasses
    /\ batch_size \in 1..MaxBatch
    /\ \E n \in 1..MaxVal : valid_labels \in SeqsOfLen(0..MaxClasses - 1, n)
    /\ \A i \in 1..Len(valid_labels) : valid_labels[i] < num_classes
    /\ vpc = "loop"
    /\ all_gts = <<>> /\ all_predictions = <<>>
    /\ v_acc = <<0, 1>> /\ conf_matrix = <<>>

\* lines 144-155: the loader yields the next batch_size labels (the last batch
\* may be short: drop_last is False), argmax yields one class index for each
ValBatch ==
    /\ vpc = "loop"
    /\ Len(all_gts) < Len(valid_labels)
    /\ LET k == Min(batch_size, Len(valid_labels) - Len(all_gts))
           labels == SubSeq(valid_labels, Len(all_gts) + 1, Len(all_gts) + k)
       IN \E max_idx \in SeqsOfLen(0..num_classes - 1, k) :
             /\ all_gts' = all_gts \o labels
             /\ all_predictions' = all_predictions \o max_idx
    /\ UNCHANGED <<trainVars, fwdVars, vpc, num_classes, batch_size,
                   valid_labels, v_acc, conf_matrix>>

\* lines 157-161, once the loader is exhausted
ValMetrics ==
    /\ vpc = "loop"
    /\ Len(all_gts) = Len(valid_labels)
    /\ v_acc' = AccuracyCall(all_gts, all_predictions)
    /\ conf_matrix' = ConfusionCall(all_gts, all_predictions)
    /\ vpc' = "done"
    /\ UNCHANGED <<trainVars, fwdVars, num_classes, batch_size, valid_labels,
                   all_gts, all_predictions>>

\* lines 139-142 of the next epoch: the accumulators start empty again. acc and
\* conf_matrix keep the last epoch's values in the code, which never reads them
\* before lines 158 and 160 assign them again; they are cleared here
ValNextEpoch ==
    /\ vpc = "done"
    /\ all_gts' = <<>> /\ all_predictions' = <<>>
    /\ v_acc' = <<0, 1>> /\ conf_matrix' = <<>>
    /\ vpc' = "loop"
    /\ UNCHANGED <<trainVars, fwdVars, num_classes, batch_size, valid_labels>>

ValNext == ValBatch \/ ValMetrics \/ ValNextEpoch
ValSpecInit == TrainInit /\ ValInit /\ FwdIdle
ValSpec == ValSpecInit /\ [][ValNext]_vars

----------------------------------------------------------------------------
(* CNN.forward: the shape <<N, C, H, W>> or <<N, F>> of x, models.py 5-50 *)

DefaultImageSize == 224   \* --image_size default
SizeSpread == 20          \* image sizes explored: the default +- SizeSpread
InChannels == 3           \* RGB input of conv1
Conv1Out == 16
Conv2Out == 32
Conv3Out == 64
Conv4Out == 64
KernelSize == 3           \* Conv2d(kernel_size=3, padding=0)
PoolSize == 2             \* MaxPool2d(kernel_size=2)
Fc1In == 5184             \* Linear(in_features=5184, ...)
Fc1Out == 1024
Fc2Out == 512

ImageSizes == (DefaultImageSize - SizeSpread)..(DefaultImageSize + SizeSpread)

\* Conv2d with kernel k, stride 1, padding 0 on a side of length h
ConvOut(h) == h - (KernelSize - 1)
\* MaxPool2d with kernel k (stride k, floor mode) on a side of length h
PoolOut(h) == h \div PoolSize

\* make_block: conv, batch norm, activation, conv, batch norm, activation, pool
make_block(x, in_channels, out_channels) ==
    <<x[1], out_channels, PoolOut(ConvOut(ConvOut(x[3]))),
      PoolOut(ConvOut(ConvOut(x[4])))>>

\* x.view(x.shape[0], -1)
Flatten(x) == <<x[1], x[2] * x[3] * x[4]>>

\* the state at entry to forward(): a batch of N resized RGB images
FwdInit ==
    /\ image_size \in ImageSizes
    /\ n_out \in 1..MaxClasses
    /\ \E n \in 1..MaxBatch : shape = <<n, InChannels, image_size, image_size>>
    /\ fpc = "conv1"

\* a convolution block; its input must have the block's in_channels
Block(here, next, in_channels, out_channels) ==
    /\ fpc = here
    /\ IF shape[2] = in_channels
       THEN shape' = make_block(shape, in_channels, out_channels) /\ fpc' = next
       ELSE fpc' = "error" /\ UNCHANGED shape
    /\ UNCHANGED <<trainVars, valVars, image_size, n_out>>

\* a Dropout + Linear (+ activation) stage; a Linear raises on an input whose
\* last dimension is not its in_features
Dense(here, next, in_features, out_features) ==
    /\ fpc = here
    /\ IF shape[2] = in_features
       THEN shape' = <<shape[1], out_features>> /\ fpc' = next
       ELSE fpc' = "error" /\ UNCHANGED shape
    /\ UNCHANGED <<trainVars, valVars, image_size, n_out>>

FwdConv1 == Block("conv1", "conv2", InChannels, Conv1Out)   \* line 41
FwdConv2 == Block("conv2", "conv3", Conv1Out, Conv2Out)     \* line 42
FwdConv3 == Block("conv3", "conv4", Conv2Out, Conv3Out)     \* line 43
FwdConv4 == Block("conv4", "view", Conv3Out, Conv4Out)      \* line 44
FwdView ==                                                  \* line 46
    /\ fpc = "view"
    /\ shape' = Flatten(shape)
    /\ fpc' = "fc1"
    /\ UNCHANGED <<trainVars, valVars, image_size, n_out>>
FwdFc1 == Dense("fc1", "fc2", Fc1In, Fc1Out)                \* line 47
FwdFc2 == Dense("fc2", "fc3", Fc1Out, Fc2Out)               \* line 48
FwdFc3 == Dense("fc3", "done", Fc2Out, n_out)               \* line 49

FwdNext ==
    \/ FwdConv1 \/ FwdConv2 \/ FwdConv3 \/ FwdConv4 \/ FwdView
    \/ FwdFc1 \/ FwdFc2 \/ FwdFc3
ShapeSpecInit == TrainInit /\ ValIdle /\ FwdInit
ShapeSpec == ShapeSpecInit /\ [][FwdNext]_vars

----------------------------------------------------------------------------
(* Properties of train(): checkpoints, resume, the epoch loop *)

Range(q) == {q[i] : i \in 1..Len(q)}

\* the epoch body has passed both torch.save statements
AfterSaves == pc = "sched"

\* C1 as stated: at the end of every executed epoch last.pt has been written,
\* and best.pt has been written if and only if the epoch's accuracy strictly
\* exceeds every accuracy seen in earlier epochs of that run.
C1_BestIffExceedsEarlierEpochs ==
    AfterSaves =>
        /\ "last" \in Range(steps)
        /\ ("best" \in Range(steps)) <=> (\A a \in seen : acc > a)

\* C1 as amended: at the end of every executed epoch last.pt has been written
\* (and holds this epoch's record), and best.pt has been written if and only
\* if the epoch's accuracy strictly exceeds the best accuracy the run started
\* with (0 when fresh, the checkpoint's best_acc when resumed) and every
\* accuracy seen in earlier epochs of that run.
C1_BestIffExceedsRunningBest ==
    AfterSaves =>
        /\ "last" \in Range(steps)
        /\ fs_last = checkpoint /\ fs_last.epoch = epoch
        /\ ("best" \in Range(steps)) <=>
               (acc > init_best /\ \A a \in seen : acc > a)
        /\ ("best" \in Range(steps)) => fs_best = checkpoint

\* a resumed run whose first epoch has a positive accuracy that does not beat
\* the best accuracy carried over from the checkpoint: best.pt is not written
C1_Witness ==
    /\ AfterSaves /\ loaded /\ seen = {} /\ acc > 0 /\ acc <= init_best
    /\ "last" \in Range(steps) /\ "best" \notin Range(steps)

\* C2: a checkpoint file written at the end of epoch e records e, and a run
\* started on that file has start_epoch = e + 1 and best_acc = the file's
\* best_acc, so the first epoch it executes is e + 1.
C2_ResumeRoundTrip ==
    /\ pc \in {"save_best", "sched"} =>
           /\ fs_last.epoch = epoch
           /\ ("best" \in Range(steps) => fs_best.epoch = epoch)
    /\ (loaded /\ ~files_changed) =>
           /\ checkpoint = TorchLoad(checkpoint_path, fs_last, fs_best)
           /\ start_epoch = checkpoint.epoch + 1
           /\ best_acc = checkpoint.best_acc
           /\ executed # <<>> => executed[1] = checkpoint.epoch + 1

\* a run resumed from last.pt of epoch 1 is inside epoch 2
C2_Witness ==
    /\ loaded /\ ~files_changed /\ checkpoint_path = "last"
    /\ checkpoint.epoch = 1 /\ pc = "train" /\ epoch = 2 /\ best_acc > 0

\* C3: the record written at the end of epoch e stores as best_acc the maximum
\* of the run's initial best accuracy and the accuracies of all epochs up to
\* and including e.
C3_StoredBestIncludesThisEpoch ==
    pc \in {"save_best", "sched"} =>
        /\ fs_last.best_acc = Max(init_best, MaxOf(seen \cup {acc}))
        /\ ("best" \in Range(steps) =>
               fs_best.best_acc = Max(init_best, MaxOf(seen \cup {acc})))

\* C4: the learning rate used in epoch e is the initial rate times 0.1 once
\* for each milestone <= e, in fresh and in resumed runs.
MilestonesPassed(e) == Cardinality({m \in Milestones : m <= e})
C4_LrFollowsEpochCounter ==
    pc \in {"train", "validate"} => lr_exp = MilestonesPassed(epoch)

\* C5: a run whose checkpoint_path is not given, or does not resolve to a
\* file, fails nowhere in lines 98-106, loads nothing and starts at epoch 0
\* with best accuracy 0; state is loaded only when the path is a file.
PathResolvesToFile ==
    \/ checkpoint_path = "last" /\ fs_last # NoFile
    \/ checkpoint_path = "best" /\ fs_best # NoFile
C5_FreshUnlessFile ==
    [][pc = "load" /\ pc' # "killed" =>
          IF PathResolvesToFile
          THEN pc' = "error" \/ (pc' = "loop" /\ loaded')
          ELSE /\ pc' = "loop" /\ ~loaded'
               /\ start_epoch' = 0 /\ best_acc' = 0 /\ range_it' = 0
               /\ lr_exp' = lr_exp /\ checkpoint' = checkpoint]_vars

\* a path is given, does not resolve to a file, and the run has started fresh
C5_Witness ==
    /\ pc = "train" /\ epoch = 0 /\ ~loaded /\ best_acc = 0
    /\ checkpoint_path \in {"missing", "dir", "last", "best"}

\* C9: a run that is not killed ends (done, or the uncaught error of loading a
\* cut-short file); it executes exactly the epochs start_epoch .. epochs-1,
\* once each in ascending order; in an epoch the steps come in the order
\* train, validate, log, last.pt, (best.pt), scheduler; with
\* start_epoch >= epochs nothing is executed or written.
StepOrder == <<"train", "validate", "log", "last", "best", "sched">>
StepOrderNoBest == <<"train", "validate", "log", "last", "sched">>
IsPrefix(q, r) == Len(q) <= Len(r) /\ \A i \in 1..Len(q) : q[i] = r[i]
EpochsOnceInOrder ==
    /\ \A i \in 1..Len(executed) : executed[i] = start_epoch + i - 1
    /\ IsPrefix(steps, StepOrder) \/ IsPrefix(steps, StepOrderNoBest)
    /\ pc \in {"train", "validate", "log", "save_last", "save_best", "sched"}
          => /\ executed # <<>> /\ executed[Len(executed)] = epoch
             /\ epoch < epochs
    /\ pc = "loop" /\ executed # <<>> => Len(steps) >= 5 /\ steps[Len(steps)] = "sched"
    /\ pc \in Running => ENABLED RunStep
    /\ pc = "done" =>
          /\ Len(executed) = Max(0, epochs - start_epoch)
          /\ start_epoch >= epochs => executed = <<>> /\ ~files_changed
C9_TerminatesEpochsOnceInOrder ==
    /\ []EpochsOnceInOrder
    /\ (pc = "load") ~> (pc \in Stopped)

\* a resumed run has finished after executing two epochs
C9_Witness ==
    /\ pc = "done" /\ loaded /\ Len(executed) = 2 /\ files_changed

\* resuming from the checkpoint of the final epoch: the run ends at once
C9_WitnessNothingToDo ==
    /\ pc = "done" /\ loaded /\ start_epoch = epochs /\ executed = <<>>

----------------------------------------------------------------------------
(* Properties of the validation metrics *)

\* positions at which prediction and ground truth agree
Matches ==
    Cardinality({i \in 1..Len(all_gts) : all_gts[i] = all_predictions[i]})
\* validation samples with ground-truth class c
TruthCount(c) == Cardinality({i \in 1..Len(all_gts) : all_gts[i] = c})

\* C6: the accuracy reported for the accumulated labels is (number of
\* positions where prediction and ground truth agree) / (number of validation
\* samples): 1 when all agree, 0 when none does, 3/4 for ground truth
\* [0,0,1,1] with predictions [0,1,1,1].
C6_AccuracyIsExactMatchFraction ==
    vpc = "done" =>
        /\ Len(all_gts) = Len(valid_labels)
        /\ Len(all_predictions) = Len(all_gts)
        /\ all_gts = valid_labels
        /\ v_acc = <<Matches, Len(valid_labels)>>
        /\ (\A i \in 1..Len(all_gts) : all_gts[i] = all_predictions[i])
              => v_acc[1] = v_acc[2]
        /\ (\A i \in 1..Len(all_gts) : all_gts[i] # all_predictions[i])
              => v_acc[1] = 0
        /\ (all_gts = <<0, 0, 1, 1>> /\ all_predictions = <<0, 1, 1, 1>>)
              => 4 * v_acc[1] = 3 * v_acc[2]

\* the scenario of the spec, accumulated in batches of two
C6_Witness ==
    /\ vpc = "done" /\ batch_size = 2
    /\ all_gts = <<0, 0, 1, 1>> /\ all_predictions = <<0, 1, 1, 1>>
    /\ v_acc = <<3, 4>>

RECURSIVE SumSeq(_, _)
SumSeq(q, i) == IF i = 0 THEN 0 ELSE SumSeq(q, i - 1) + q[i]
RECURSIVE Trace(_, _)
Trace(m, i) == IF i = 0 THEN 0 ELSE Trace(m, i - 1) + m[i][i]
\* the row of the confusion matrix that stands for class c, 0 when c occurs in
\* neither the ground-truth nor the predicted labels (it then has no row)
RowOf(c) ==
    LET labels == SortedSeq({all_gts[i] : i \in 1..Len(all_gts)}
                    \cup {all_predictions[i] : i \in 1..Len(all_predictions)})
        at == {i \in 1..Len(labels) : labels[i] = c}
    IN IF at = {} THEN 0 ELSE CHOOSE i \in at : TRUE

C10_MatrixIndexedByClass ==
    vpc = "done" =>
        /\ Len(conf_matrix) = num_classes
        /\ \A i \in 0..num_classes - 1 :
              /\ Len(conf_matrix[i + 1]) = num_classes
              /\ \A j \in 0..num_classes - 1 :
                    conf_matrix[i + 1][j + 1] =
                        Cardinality({k \in 1..Len(all_gts) :
                                        all_gts[k] = i /\ all_predictions[k] = j})

----------------------------------------------------------------------------
(* Properties of CNN.forward *)

\* C8: at the image size the CLI configures by default the four blocks leave
\* 5184 values per sample, Fc1In, so forward() goes through and returns a
\* [batch size, num_classes] output.
C8_DefaultSizeFitsFc1 ==
    image_size = DefaultImageSize =>
        /\ fpc # "error"
        /\ fpc = "fc1" => shape[2] = Fc1In
        /\ fpc = "done" => Len(shape) = 2 /\ shape[2] = n_out
====
